---- MODULE Spec2Model ----
(***************************************************************************)
(* Water-tank monitoring core: the ThingSpeak telemetry client             *)
(* (thingspeakService.ts), the polling/ingestion handler of the App        *)
(* (fetchCurrentData, determinePumpStatus) and the usage aggregator        *)
(* (usageService.ts).                                                      *)
(*                                                                         *)
(* Units. Times are milliseconds, as Date.now().  Levels are whole percent *)
(* after Math.round; a provider field is carried in tenths of a percent so *)
(* that rounding is something the model computes.  Volumes and pump run    *)
(* time are carried in hundredths (centilitres, hundredths of a minute) so *)
(* that the 0.1 L / 0.05 min increments of addUsagePoint stay integers.    *)
(***************************************************************************)
EXTENDS Integers, Sequences, FiniteSets, TLC

VARIABLES
    now,                \* wall clock, Date.now()
    cache,              \* ThingSpeakService.cache
    pc,                 \* per call slot: "idle" or the transport being awaited
    method,             \* per call slot: which service method is running
    started,            \* per call slot: the `now` the method captured on entry
    attemptAt,          \* per call slot: when the pending transport attempt began
    tried,              \* per call slot: transports attempted so far, in order
    ret,                \* the most recent return of a service method
    nextId,             \* identity of the next Reading object to be allocated
    nStarts,            \* service method calls made so far
    latestCalls,        \* the getCurrentWaterLevel calls since the cache was last cleared
    waterLevelHistory,  \* App state: trend window
    pumpStatus,         \* App state: inferred pump state
    connectionStatus,   \* App state
    ingestLog,          \* the readings passed to addUsagePoint, in order, with the pump state inferred
    todayData,          \* usageService: <<>> or <<r>>, r the record of today's date
    lastWaterLevel,     \* localStorage['last_water_level']: <<>> or <<v>>
    pastData,           \* usageService: the records of usageData of the other dates
    store,              \* localStorage['water_usage_data']: <<>> or <<the saved usageData>>
    storageOk,          \* whether localStorage.setItem succeeds
    raised,             \* whether addUsagePoint has thrown since the page was loaded
    usageRet,           \* the most recent return of getHistoricalUsage or getUsageSummary
    boots               \* constructions of the usage service so far

vars == <<now, cache, pc, method, started, attemptAt, tried, ret, nextId, nStarts,
          latestCalls, waterLevelHistory, pumpStatus, connectionStatus, ingestLog,
          todayData, lastWaterLevel, pastData, store, storageOk, raised, usageRet,
          boots>>

----------------------------------------------------------------------------
\* Bounds of the model.

MaxCalls == 2       \* service calls that can be in flight at once
MaxStarts == 2      \* service calls made in one behaviour
MaxTicks == 3       \* clock steps in one behaviour
MaxFeed == 50       \* entries of the longest history feed
MixLen == 3         \* longest history feed with invalid entries
MaxWindow == 6      \* longest window given to determinePumpStatus on its own
MaxPolls == 11      \* interval callbacks in one polling behaviour
Epoch == 1729000000 \* Date.now() when the page is loaded (day 20 after 1970-01-01, 00:16:40 UTC)
MaxDraws == 2       \* distinct draws of the random values of generateMockData
MaxBoots == 2       \* constructions of the usage service in one behaviour
MaxIngests == 3     \* readings ingested in one behaviour of the usage service
MaxDays == 2        \* largest positive argument given to getHistoricalUsage

\* Program constants.

cacheTimeout == 30000
historyCacheTimeout == 300000
jsonpTimeout == 10000
maxPoints == 24
historySize == 10
recentSize == 5
usageCap == 5000            \* 50 L, in centilitres
defaultCapacity == 10000
intakeAmount == 10          \* 2 L/min * 0.05 min = 0.1 L, in centilitres
pumpRunStep == 5            \* 0.05 min, in hundredths of a minute
efficiencyCap == 95
staleMinutes == 10
refreshInterval == 30000
keptDays == 365

\* JavaScript's NaN: what parseFloat gives for a non-numeric string.  Every
\* arithmetic operator below propagates it and every comparison with it is false.
NaN == -1000000

Calls == 1..MaxCalls

----------------------------------------------------------------------------
\* JavaScript arithmetic on numbers that may be NaN.

IsNaN(x) == x = NaN
Sub(a, b) == IF IsNaN(a) \/ IsNaN(b) THEN NaN ELSE a - b
Add(a, b) == IF IsNaN(a) \/ IsNaN(b) THEN NaN ELSE a + b
\* Math.round of a value given in tenths: floor(x + 0.5)
MathRound10(t) == IF IsNaN(t) THEN NaN ELSE (t + 5) \div 10
\* Math.min / Math.max return NaN when an argument is NaN
MathMin(a, b) == IF IsNaN(a) \/ IsNaN(b) THEN NaN ELSE IF a < b THEN a ELSE b
MathMax(a, b) == IF IsNaN(a) \/ IsNaN(b) THEN NaN ELSE IF a > b THEN a ELSE b

----------------------------------------------------------------------------
\* Provider payloads.

\* A field of a feed entry: null, a non-numeric string, or a decimal string
\* (v is its value in tenths).
NullField == [kind |-> "null", v |-> 0]
TextField == [kind |-> "text", v |-> 0]
NumField(t) == [kind |-> "num", v |-> t]

\* `entry.field1 ? ... : ...` : null (and "") are falsy, any other string is truthy
Truthy(f) == f.kind # "null"
\* parseFloat in tenths
ParseFloat10(f) == IF f.kind = "num" THEN f.v ELSE NaN

\* what the provider can answer for results=1
Field1s == {NullField, TextField, NumField(-50), NumField(496), NumField(1500)}
Ages == {0}
\* field4 carries the tank capacity, a whole number of litres, when the channel sets it
EntryCap(f, f4, t) == [field1 |-> f, field4 |-> f4, created_at |-> t]
Entry(f, t) == EntryCap(f, NullField, t)
NoData == [hasFeeds |-> FALSE, feeds |-> <<>>]
Feeds(s) == [hasFeeds |-> TRUE, feeds |-> s]

LatestPayloads(t) ==
    {NoData, Feeds(<<>>)} \cup {Feeds(<<Entry(f, t - a)>>) : f \in Field1s, a \in Ages}

\* what the provider can answer for a history request (newest first, 10 minutes apart)
HistField1s == {NullField, NumField(504)}
HistoryPayloads(t) ==
    {NoData, Feeds(<<>>)}
      \cup {Feeds(<<Entry(f, t), Entry(NumField(496), t - 600000)>>) : f \in HistField1s}

----------------------------------------------------------------------------
\* Reading objects (WaterLevelData).  id models object identity.

NoReading ==
    [id |-> 0, waterLevel |-> 0, tankCapacity |-> 0, pumpStatus |-> "OFF",
     timestamp |-> 0, lastUpdate |-> "null"]

Plural(n) == IF n # 1 THEN "s" ELSE ""

\* the recency label of processThingSpeakData
LastUpdateLabel(diffMs) ==
    LET diffMins == diffMs \div 60000
        diffHours == diffMins \div 60
        diffDays == diffHours \div 24
    IN  IF diffMins < 1 THEN "Just now"
        ELSE IF diffMins < 60 THEN ToString(diffMins) \o " min" \o Plural(diffMins) \o " ago"
        ELSE IF diffHours < 24 THEN ToString(diffHours) \o " hour" \o Plural(diffHours) \o " ago"
        ELSE ToString(diffDays) \o " day" \o Plural(diffDays) \o " ago"

ClampLevel(waterLevel) == MathMax(0, MathMin(100, waterLevel))

processThingSpeakData(entry, id, t) ==
    LET waterLevel == IF Truthy(entry.field1) THEN MathRound10(ParseFloat10(entry.field1)) ELSE 0
    IN  [id |-> id,
         waterLevel |-> ClampLevel(waterLevel),
         tankCapacity |-> IF Truthy(entry.field4) THEN ParseFloat10(entry.field4) \div 10
                          ELSE defaultCapacity,
         pumpStatus |-> "OFF",
         timestamp |-> entry.created_at,
         lastUpdate |-> LastUpdateLabel(t - entry.created_at)]

getFallbackData(id, t) ==
    [id |-> id, waterLevel |-> 0, tankCapacity |-> defaultCapacity, pumpStatus |-> "OFF",
     timestamp |-> t, lastUpdate |-> "Connection Error"]

----------------------------------------------------------------------------
\* Historical series (HistoricalData[]).

\* toLocaleTimeString(hour, minute): the minute of the day
formatTimeForChart(t) == (t \div 60000) % 1440

ValidEntry(entry) == Truthy(entry.field1) /\ ~IsNaN(ParseFloat10(entry.field1))

Reverse(s) == [i \in 1..Len(s) |-> s[Len(s) + 1 - i]]

\* a getHistoricalData that leaves the entries in the provider's order
HistoricalUnreversed(feeds) ==
    LET kept == SelectSeq(feeds, ValidEntry)
    IN  [i \in 1..Len(kept) |->
           [time |-> formatTimeForChart(kept[i].created_at),
            level |-> MathRound10(ParseFloat10(kept[i].field1))]]

\* filter, map and reverse of getHistoricalData
HistoricalFromFeeds(feeds) ==
    LET kept == SelectSeq(feeds, ValidEntry)
        mapped == [i \in 1..Len(kept) |->
                     [time |-> formatTimeForChart(kept[i].created_at),
                      level |-> MathRound10(ParseFloat10(kept[i].field1))]]
    IN  Reverse(mapped)

\* a sampleData that keeps the strided indices only
SampleIndicesStrided(n, mp) ==
    IF n <= mp THEN [j \in 1..n |-> j - 1]
    ELSE LET step == n \div mp
             k == Cardinality({i \in 0..(n - 1) : i % step = 0})
         IN  [j \in 1..k |-> (j - 1) * step]

\* the indices (from 0) sampleData keeps of a series of length n
SampleIndices(n, mp) ==
    IF n <= mp THEN [j \in 1..n |-> j - 1]
    ELSE LET step == n \div mp
             k == Cardinality({i \in 0..(n - 1) : i % step = 0})
             strided == [j \in 1..k |-> (j - 1) * step]
         IN  IF strided[k] # n - 1 THEN Append(strided, n - 1) ELSE strided

sampleData(data, mp) ==
    LET idx == SampleIndices(Len(data), mp)
    IN  [j \in 1..Len(idx) |-> data[idx[j] + 1]]

\* Math.random() in generateFallbackHistoricalData: any level of 45..74; the model
\* draws one level for the whole series
FallbackLevels == {45, 74}
generateFallbackHistoricalData(t, v) ==
    [j \in 1..24 |-> [time |-> formatTimeForChart(t - (24 - j) * 3600000), level |-> v]]

----------------------------------------------------------------------------
\* Trend analyzer (App.determinePumpStatus).

\* a slice that keeps the oldest n samples
FirstN(s, n) == IF Len(s) <= n THEN s ELSE SubSeq(s, 1, n)
LastN(s, n) == IF Len(s) <= n THEN s ELSE SubSeq(s, Len(s) - n + 1, Len(s))

RECURSIVE SumChanges(_, _)
\* the reduce of determinePumpStatus: sum over index >= 1 of level - recent[index-1]
SumChanges(recent, i) ==
    IF i > Len(recent) THEN 0
    ELSE Add(Sub(recent[i], recent[i - 1]), SumChanges(recent, i + 1))

\* a rising test that already holds at an average change of exactly 0.5
RisingFastInclusive(sum, n1) == ~IsNaN(sum) /\ 2 * sum >= n1
\* averageChange > 0.5 and averageChange < -0.2, with averageChange = sum / n1
RisingFast(sum, n1) == ~IsNaN(sum) /\ 2 * sum > n1
Draining(sum, n1) == ~IsNaN(sum) /\ 5 * sum < -n1

determinePumpStatus(currentLevel, levelHistory) ==
    IF Len(levelHistory) < 3 THEN "OFF"
    ELSE LET recentReadings == LastN(levelHistory, recentSize)
             sum == SumChanges(recentReadings, 2)
             n1 == Len(recentReadings) - 1
         IN  IF RisingFast(sum, n1) THEN "ON"
             ELSE IF Draining(sum, n1) THEN "OFF"
             ELSE IF ~IsNaN(currentLevel) /\ currentLevel > 60 THEN "OFF" ELSE "ON"

----------------------------------------------------------------------------
\* Usage aggregator (WaterUsageService.addUsagePoint), on the record of today.

Hours == 0..23
currentHour(t) == (t \div 3600000) % 24

RECURSIVE SumHours(_, _)
SumHours(h, i) == IF i > 23 THEN 0 ELSE h[i] + SumHours(h, i + 1)

\* an efficiency without the cap
EfficiencyUncapped(intake, usage) == (200 * intake + usage) \div (2 * usage)
\* Math.min(95, Math.round(intake / usage * 100))
Efficiency(intake, usage) ==
    LET rounded == (200 * intake + usage) \div (2 * usage)
    IN  IF rounded < efficiencyCap THEN rounded ELSE efficiencyCap

\* parseFloat(localStorage.getItem(key) || waterLevel.toString()): the stored string
\* is the decimal form of a whole level or "NaN", which parseFloat reads back
LastLevel(stored, waterLevel) == IF stored = <<>> THEN waterLevel ELSE stored[1]

\* levelDifference > 0.5
Significant(levelDifference) == ~IsNaN(levelDifference) /\ 2 * levelDifference > 1

\* the record addUsagePoint creates when usageData has none for today
NewRecord ==
    [dailyUsage |-> 0, dailyIntake |-> 0, hourlyUsage |-> [h \in Hours |-> 0],
     pumpRunTime |-> 0, efficiency |-> 90]

\* found: <<>> or <<r>>, what usageData.find gives for today's date
addUsagePoint(found, stored, waterLevel, tankCapacity, status, t) ==
    LET rec == IF found = <<>> THEN NewRecord ELSE found[1]
        lastLevel == LastLevel(stored, waterLevel)
        levelDifference == Sub(lastLevel, waterLevel)
        volumeUsed == levelDifference * tankCapacity
        added == IF volumeUsed < usageCap THEN volumeUsed ELSE usageCap
        hourly == IF Significant(levelDifference)
                  THEN [rec.hourlyUsage EXCEPT ![currentHour(t)] = @ + added]
                  ELSE rec.hourlyUsage
        usage == IF Significant(levelDifference) THEN SumHours(hourly, 0) ELSE rec.dailyUsage
        intake == IF status = "ON" THEN rec.dailyIntake + intakeAmount ELSE rec.dailyIntake
        runTime == IF status = "ON" THEN rec.pumpRunTime + pumpRunStep ELSE rec.pumpRunTime
    IN  [dailyUsage |-> usage,
         dailyIntake |-> intake,
         hourlyUsage |-> hourly,
         pumpRunTime |-> runTime,
         efficiency |-> IF usage > 0 THEN Efficiency(intake, usage) ELSE rec.efficiency]

\* Dates are days since 1970-01-01 (the UTC date of toISOString), within 1969-1970.
msPerDay == 86400000
dayOf(t) == t \div msPerDay
DaysBefore == <<0, 31, 59, 90, 120, 151, 181, 212, 243, 273, 304, 334, 365>>
yearOf(d) == IF d >= 0 THEN 1970 ELSE 1969
monthOf(d) ==
    LET n == IF d >= 0 THEN d ELSE d + 365
    IN  CHOOSE m \in 1..12 : DaysBefore[m] <= n /\ n < DaysBefore[m + 1]

\* generateMockData.  Its random values are one of MaxDraws draws s: the daily
\* usage is the seasonal base (150 L, * 1.4 from June to September, * 0.8 from
\* December to March) plus a whole number of litres within +-20, the intake is the
\* usage plus a whole number of litres within -9..21, the efficiency is in 85..95;
\* the hourly pattern is drawn independently of the rounded daily total.
MockSeeds == 1..MaxDraws
BaseUsage(d) ==
    IF monthOf(d) \in {12, 1, 2, 3} THEN 12000
    ELSE IF monthOf(d) \in {6, 7, 8, 9} THEN 21000 ELSE 15000
MockHourly ==
    [h \in Hours |-> IF h <= 5 THEN 100
                     ELSE IF h >= 6 /\ h <= 10 THEN 900
                     ELSE IF h >= 18 /\ h <= 22 THEN 800
                     ELSE 500]
MockRecord(d, s) ==
    [dailyUsage |-> BaseUsage(d) - 1000 * (s - 1),
     dailyIntake |-> BaseUsage(d) - 1000 * (s - 1) + 500 * (3 - 2 * s),
     hourlyUsage |-> MockHourly,
     pumpRunTime |-> 6000,
     efficiency |-> 85 + ((d + 366 + s) % 11)]
\* today's record as the first construction leaves it (120 L used, 125 L taken in)
MockToday == [MockRecord(dayOf(Epoch), 1) EXCEPT !.efficiency = 90]

\* The records of the other dates are always a run of consecutive days that one
\* generateMockData call produced: [first, last, seed], empty when first > last.
NoPast == [first |-> 0, last |-> -1, seed |-> 1]
MockBlock(t, s) == [first |-> dayOf(t) - (keptDays - 1), last |-> dayOf(t) - 1, seed |-> s]

\* what the charts and the summary read of a record
Daily(d, r) ==
    [date |-> d, dailyUsage |-> r.dailyUsage, dailyIntake |-> r.dailyIntake,
     efficiency |-> r.efficiency]

\* the days generateMockData covers when it runs on the day of Epoch, with the
\* month of each and the record each draw gives it
MockDays == (dayOf(Epoch) - keptDays)..dayOf(Epoch)
MonthOfDay == [d \in MockDays |-> monthOf(d)]
MockDaily == [s \in MockSeeds |-> [d \in MockDays |-> Daily(d, MockRecord(d, s))]]

PastRecords(b) == [i \in 1..(b.last - b.first + 1) |-> MockDaily[b.seed][b.first + i - 1]]

\* usageData, oldest first: the other dates and, when there is one, the record of today
usageData(past, found, t) ==
    PastRecords(past) \o [i \in 1..Len(found) |-> Daily(dayOf(t), found[i])]

RECURSIVE SumSeq(_)
SumSeq(q) == IF q = <<>> THEN 0 ELSE Head(q) + SumSeq(Tail(q))

\* Math.round(a / b) for a >= 0, b > 0
RoundDiv(a, b) == (2 * a + b) \div (2 * b)
\* Math.round of a difference a - b given in hundredths
RoundNet(a, b) == (a - b + 50) \div 100

\* a summary whose daily average divides by a fixed month of 30 days
PeriodSummaryFixedDays(recs) ==
    LET usage == SumSeq([i \in 1..Len(recs) |-> recs[i].dailyUsage])
        intake == SumSeq([i \in 1..Len(recs) |-> recs[i].dailyIntake])
        n == Len(recs)
    IN  [usage |-> RoundDiv(usage, 100),
         intake |-> RoundDiv(intake, 100),
         net |-> RoundNet(intake, usage),
         efficiency |-> IF n > 0
                        THEN RoundDiv(SumSeq([i \in 1..n |-> recs[i].efficiency]), n)
                        ELSE 0,
         averageDaily |-> RoundDiv(usage, 100 * 30),
         averageMonthly |-> RoundDiv(usage, 100 * 12)]

PeriodSummary(recs) ==
    LET usage == SumSeq([i \in 1..Len(recs) |-> recs[i].dailyUsage])
        intake == SumSeq([i \in 1..Len(recs) |-> recs[i].dailyIntake])
        n == Len(recs)
    IN  [usage |-> RoundDiv(usage, 100),
         intake |-> RoundDiv(intake, 100),
         net |-> RoundNet(intake, usage),
         efficiency |-> IF n > 0
                        THEN RoundDiv(SumSeq([i \in 1..n |-> recs[i].efficiency]), n)
                        ELSE 0,
         averageDaily |-> RoundDiv(usage, 100 * (IF n > 1 THEN n ELSE 1)),
         averageMonthly |-> RoundDiv(usage, 100 * 12)]

getUsageSummary(past, found, t) ==
    LET today == dayOf(t)
        data == usageData(past, found, t)
        InMonth(r) == yearOf(r.date) = yearOf(today) /\ MonthOfDay[r.date] = MonthOfDay[today]
        InYear(r) == yearOf(r.date) = yearOf(today)
        dailyData == IF found = <<>>
                     THEN [dailyUsage |-> 0, dailyIntake |-> 0, efficiency |-> 0]
                     ELSE found[1]
    IN  [daily |-> [usage |-> RoundDiv(dailyData.dailyUsage, 100),
                    intake |-> RoundDiv(dailyData.dailyIntake, 100),
                    net |-> RoundNet(dailyData.dailyIntake, dailyData.dailyUsage),
                    efficiency |-> dailyData.efficiency],
         monthly |-> PeriodSummary(SelectSeq(data, InMonth)),
         yearly |-> PeriodSummary(SelectSeq(data, InYear))]

----------------------------------------------------------------------------
\* State.

NoSeries == <<>>
\* before getHistoricalUsage or getUsageSummary has been called
NoUsageReturn == [op |-> "none", days |-> 0, records |-> <<>>, summary |-> <<>>]

\* a return of a service method, as its caller sees it (cached: the cached reading
\* when the method returned)
Return(m, hit, via, trd, payload, reading, series, ok) ==
    [method |-> m, hit |-> hit, via |-> via, tried |-> trd, payload |-> payload,
     reading |-> reading, series |-> series, ok |-> ok, cached |-> cache.data]

Init ==
    /\ now = Epoch
    /\ cache = [data |-> NoReading, timestamp |-> 0,
                historicalData |-> NoSeries, historyTimestamp |-> 0]
    /\ pc = [c \in Calls |-> "idle"]
    /\ method = [c \in Calls |-> "none"]
    /\ started = [c \in Calls |-> 0]
    /\ attemptAt = [c \in Calls |-> 0]
    /\ tried = [c \in Calls |-> <<>>]
    /\ ret = [method |-> "none", hit |-> FALSE, via |-> "none", tried |-> <<>>,
              payload |-> NoData, reading |-> NoReading, series |-> NoSeries, ok |-> FALSE,
              cached |-> NoReading]
    /\ nextId = 1
    /\ nStarts = 0
    /\ latestCalls = <<>>
    /\ waterLevelHistory = <<>>
    /\ pumpStatus = "OFF"
    /\ connectionStatus = "disconnected"
    /\ ingestLog = <<>>
    /\ todayData = <<MockToday>>
    /\ lastWaterLevel = <<>>
    /\ pastData = MockBlock(Epoch, 1)
    /\ store = <<[past |-> pastData, today |-> todayData]>>
    /\ storageOk = TRUE
    /\ raised = FALSE
    /\ usageRet = NoUsageReturn
    /\ boots = 1

callVars == <<pc, method, started, attemptAt, tried>>
appVars == <<waterLevelHistory, pumpStatus, connectionStatus, ingestLog, todayData,
             lastWaterLevel, pastData, store, storageOk, raised, usageRet, boots>>

----------------------------------------------------------------------------
\* The continuation of App.fetchCurrentData once getCurrentWaterLevel has returned
\* `data` at time t: window update, pump inference, usage ingestion, status.

\* a status that already reports a reading of exactly 10 minutes as stale
ConnectionStatusInclusive(data, t) ==
    IF data.lastUpdate = "Connection Error" THEN "error"
    ELSE IF t - data.timestamp >= staleMinutes * 60000 THEN "disconnected"
    ELSE "connected"

ConnectionStatus(data, t) ==
    IF data.lastUpdate = "Connection Error" THEN "error"
    ELSE IF t - data.timestamp > staleMinutes * 60000 THEN "disconnected"
    ELSE "connected"

\* a variant that persists the level only when the ingestion recorded usage
IngestKeepsLevel(data, t) ==
    LET newHistory == LastN(Append(waterLevelHistory, data.waterLevel), historySize)
        smartPumpStatus == determinePumpStatus(data.waterLevel, newHistory)
        rec == addUsagePoint(todayData, lastWaterLevel, data.waterLevel,
                             data.tankCapacity, smartPumpStatus, t)
    IN  /\ todayData' = <<rec>>
        /\ ingestLog' = Append(ingestLog, [id |-> data.id, level |-> data.waterLevel,
                                            pump |-> smartPumpStatus, returned |-> storageOk])
        /\ connectionStatus' = ConnectionStatus(data, t)
        /\ waterLevelHistory' = newHistory
        /\ pumpStatus' = smartPumpStatus
        /\ lastWaterLevel' = IF todayData # <<>> /\ rec.hourlyUsage = todayData[1].hourlyUsage
                             THEN lastWaterLevel ELSE <<data.waterLevel>>
        /\ store' = <<[past |-> pastData, today |-> <<rec>>]>>
        /\ UNCHANGED <<pastData, storageOk, raised, usageRet, boots>>

\* The updater given to setWaterLevelHistory calls addUsagePoint, which mutates the
\* record of today, then writes the level with localStorage.setItem outside any
\* try/catch, then saves usageData inside one.  When the write throws, the updater
\* does not return: the window keeps its value and nothing is persisted.
Ingest(data, t) ==
    LET newHistory == LastN(Append(waterLevelHistory, data.waterLevel), historySize)
        smartPumpStatus == determinePumpStatus(data.waterLevel, newHistory)
        rec == addUsagePoint(todayData, lastWaterLevel, data.waterLevel,
                             data.tankCapacity, smartPumpStatus, t)
    IN  /\ todayData' = <<rec>>
        /\ ingestLog' = Append(ingestLog, [id |-> data.id, level |-> data.waterLevel,
                                            pump |-> smartPumpStatus, returned |-> storageOk])
        /\ connectionStatus' = ConnectionStatus(data, t)
        /\ IF storageOk
           THEN /\ waterLevelHistory' = newHistory
                /\ pumpStatus' = smartPumpStatus
                /\ lastWaterLevel' = <<data.waterLevel>>
                /\ store' = <<[past |-> pastData, today |-> <<rec>>]>>
                /\ raised' = raised
           ELSE /\ raised' = TRUE
                /\ UNCHANGED <<waterLevelHistory, pumpStatus, lastWaterLevel, store>>
        /\ UNCHANGED <<pastData, storageOk, usageRet, boots>>

----------------------------------------------------------------------------
\* makeRequest: the transports in the order they are tried.

FirstTransport == "jsonp"
\* a makeRequest that goes from the script tag straight to the proxy
NextTransportSkipsFetch(t) == IF t = "jsonp" THEN "proxy" ELSE "reject"
NextTransport(t) ==
    IF t = "jsonp" THEN "fetch" ELSE IF t = "fetch" THEN "proxy" ELSE "reject"

Begin(c, m) ==
    /\ pc' = [pc EXCEPT ![c] = FirstTransport]
    /\ method' = [method EXCEPT ![c] = m]
    /\ started' = [started EXCEPT ![c] = now]
    /\ attemptAt' = [attemptAt EXCEPT ![c] = now]
    /\ tried' = [tried EXCEPT ![c] = <<FirstTransport>>]

\* a new call takes the first slot that is not in use
FreeSlot(c) == pc[c] = "idle" /\ \A d \in Calls : d < c => pc[d] # "idle"

End(c) ==
    /\ pc' = [pc EXCEPT ![c] = "idle"]
    /\ method' = [method EXCEPT ![c] = "none"]
    /\ UNCHANGED <<started, attemptAt, tried>>

----------------------------------------------------------------------------
\* getCurrentWaterLevel, called by fetchCurrentData (interval callback, initial
\* load, 'online' handler, manual refresh).

\* a freshness test that still accepts an entry exactly 30 s old
CacheFreshInclusive == cache.data # NoReading /\ now - cache.timestamp <= cacheTimeout
CacheFresh == cache.data # NoReading /\ now - cache.timestamp < cacheTimeout

\* fetchCurrentData up to its first await
GetCurrentWaterLevel(c) ==
    /\ FreeSlot(c)
    /\ nStarts' = nStarts + 1
    /\ latestCalls' = Append(latestCalls, [at |-> now, net |-> ~CacheFresh])
    /\ IF CacheFresh
       THEN /\ ret' = Return("latest", TRUE, "none", <<>>, NoData, cache.data, NoSeries, TRUE)
            /\ Ingest(cache.data, now)
            /\ UNCHANGED <<callVars, cache, nextId, now>>
       ELSE /\ Begin(c, "latest")
            /\ UNCHANGED <<ret, appVars, cache, nextId, now>>

FetchCurrentData(c) ==
    /\ nStarts < MaxStarts
    /\ GetCurrentWaterLevel(c)

\* the code after `await this.makeRequest(url)` resolved with `data`
LatestResolved(c, data) ==
    IF ~data.hasFeeds \/ Len(data.feeds) = 0
    THEN LET fallback == getFallbackData(nextId, now)
         IN  /\ ret' = Return("latest", FALSE, pc[c], tried[c], data, fallback, NoSeries, TRUE)
             /\ Ingest(fallback, now)
             /\ UNCHANGED cache
    ELSE LET processedData == processThingSpeakData(data.feeds[1], nextId, now)
         IN  /\ cache' = [cache EXCEPT !.data = processedData, !.timestamp = started[c]]
             /\ ret' = Return("latest", FALSE, pc[c], tried[c], data, processedData,
                              NoSeries, TRUE)
             /\ Ingest(processedData, now)

\* the catch block: makeRequest rejected
LatestRejected(c) ==
    LET fallback == getFallbackData(nextId, now)
    IN  /\ ret' = Return("latest", FALSE, "none", tried[c], NoData, fallback, NoSeries, FALSE)
        /\ Ingest(fallback, now)
        /\ UNCHANGED cache

----------------------------------------------------------------------------
\* getHistoricalData(24), called by fetchHistoricalData.

\* a freshness test that still accepts a series exactly 5 minutes old
HistoryFreshInclusive ==
    Len(cache.historicalData) > 0 /\ now - cache.historyTimestamp <= historyCacheTimeout
HistoryFresh ==
    Len(cache.historicalData) > 0 /\ now - cache.historyTimestamp < historyCacheTimeout

FetchHistoricalData(c) ==
    /\ FreeSlot(c)
    /\ nStarts < MaxStarts
    /\ nStarts' = nStarts + 1
    /\ IF HistoryFresh
       THEN /\ ret' = Return("history", TRUE, "none", <<>>, NoData, NoReading,
                             cache.historicalData, TRUE)
            /\ UNCHANGED callVars
       ELSE /\ Begin(c, "history")
            /\ UNCHANGED ret
    /\ UNCHANGED <<appVars, cache, nextId, now, latestCalls>>

HistoryResolved(c, data) ==
    IF ~data.hasFeeds \/ Len(data.feeds) = 0
    THEN /\ \E v \in FallbackLevels :
               ret' = Return("history", FALSE, pc[c], tried[c], data, NoReading,
                             generateFallbackHistoricalData(now, v), TRUE)
         /\ UNCHANGED cache
    ELSE LET sampledData == sampleData(HistoricalFromFeeds(data.feeds), maxPoints)
         IN  /\ cache' = [cache EXCEPT !.historicalData = sampledData,
                                       !.historyTimestamp = started[c]]
             /\ ret' = Return("history", FALSE, pc[c], tried[c], data, NoReading,
                              sampledData, TRUE)

HistoryRejected(c) ==
    /\ \E v \in FallbackLevels :
          ret' = Return("history", FALSE, "none", tried[c], NoData, NoReading,
                        generateFallbackHistoricalData(now, v), FALSE)
    /\ UNCHANGED cache

----------------------------------------------------------------------------
\* testConnection, called by handleRefresh.

TestConnection(c) ==
    /\ FreeSlot(c)
    /\ nStarts < MaxStarts
    /\ nStarts' = nStarts + 1
    /\ Begin(c, "test")
    /\ UNCHANGED <<ret, appVars, cache, nextId, now, latestCalls>>

TestResolved(c, data) ==
    /\ ret' = Return("test", FALSE, pc[c], tried[c], data, NoReading, NoSeries, TRUE)
    /\ UNCHANGED cache

TestRejected(c) ==
    /\ ret' = Return("test", FALSE, "none", tried[c], NoData, NoReading, NoSeries, FALSE)
    /\ UNCHANGED cache

----------------------------------------------------------------------------
\* Transport events.

Pending(c) == pc[c] \in {"jsonp", "fetch", "proxy"}

PayloadsFor(m) ==
    IF m = "latest" THEN LatestPayloads(now)
    ELSE IF m = "history" THEN HistoryPayloads(now)
    ELSE {NoData}

\* makeRequest resolves with `data` and the awaiting method continues
Deliver(c, data) ==
    /\ \/ /\ method[c] = "latest"
          /\ LatestResolved(c, data)
          /\ nextId' = nextId + 1
       \/ /\ method[c] = "history"
          /\ HistoryResolved(c, data)
          /\ UNCHANGED <<appVars, nextId>>
       \/ /\ method[c] = "test"
          /\ TestResolved(c, data)
          /\ UNCHANGED <<appVars, nextId>>
    /\ End(c)
    /\ UNCHANGED <<now, nStarts, latestCalls>>

\* the pending transport delivers a payload
AttemptSucceeds(c) ==
    /\ Pending(c)
    /\ \E data \in PayloadsFor(method[c]) : Deliver(c, data)

\* the pending transport is over without data: the next one is tried, or, after
\* the last one, makeRequest rejects and the method's catch block runs
Fallthrough(c) ==
    IF NextTransport(pc[c]) # "reject"
    THEN /\ pc' = [pc EXCEPT ![c] = NextTransport(pc[c])]
         /\ attemptAt' = [attemptAt EXCEPT ![c] = now]
         /\ tried' = [tried EXCEPT ![c] = Append(@, NextTransport(pc[c]))]
         /\ UNCHANGED <<method, started, ret, appVars, cache, nextId>>
    ELSE /\ \/ /\ method[c] = "latest"
               /\ LatestRejected(c)
               /\ nextId' = nextId + 1
            \/ /\ method[c] = "history"
               /\ HistoryRejected(c)
               /\ UNCHANGED <<appVars, nextId>>
            \/ /\ method[c] = "test"
               /\ TestRejected(c)
               /\ UNCHANGED <<appVars, nextId>>
         /\ End(c)

\* script.onerror, a rejected fetch, a non-2xx status or an unparsable body
AttemptFails(c) ==
    /\ Pending(c)
    /\ Fallthrough(c)
    /\ UNCHANGED <<now, nStarts, latestCalls>>

\* the setTimeout of makeJsonpRequest
JsonpTimeout(c) ==
    /\ pc[c] = "jsonp"
    /\ now - attemptAt[c] >= jsonpTimeout
    /\ Fallthrough(c)
    /\ UNCHANGED <<now, nStarts, latestCalls>>

----------------------------------------------------------------------------
\* clearCache is public and has no precondition
clearCache ==
    /\ cache' = [data |-> NoReading, timestamp |-> 0,
                 historicalData |-> NoSeries, historyTimestamp |-> 0]
    /\ latestCalls' = <<>>
    /\ UNCHANGED <<now, callVars, ret, nextId, nStarts, appVars>>

getSystemStatus ==
    LET hasData == cache.data # NoReading
        isDataFresh == hasData /\ now - cache.timestamp < cacheTimeout
    IN  [isOnline |-> hasData /\ isDataFresh,
         lastUpdate |-> IF hasData THEN cache.data.lastUpdate ELSE "Never",
         cacheStatus |-> IF ~hasData THEN "empty" ELSE IF isDataFresh THEN "fresh" ELSE "stale"]

\* Time passes, in steps of the transport timeout.  A timer that is due fires
\* before time passes further.
Tick ==
    /\ now < Epoch + MaxTicks * jsonpTimeout
    /\ \A c \in Calls : pc[c] = "jsonp" => now - attemptAt[c] < jsonpTimeout
    /\ now' = now + jsonpTimeout
    /\ UNCHANGED <<cache, callVars, ret, nextId, nStarts, latestCalls, appVars>>

Next ==
    \/ \E c \in Calls : FetchCurrentData(c)
    \/ \E c \in Calls : FetchHistoricalData(c)
    \/ \E c \in Calls : TestConnection(c)
    \/ \E c \in Calls : AttemptSucceeds(c)
    \/ \E c \in Calls : AttemptFails(c)
    \/ \E c \in Calls : JsonpTimeout(c)
    \/ clearCache
    \/ Tick

Spec == Init /\ [][Next]_vars

----------------------------------------------------------------------------
\* The history cache over its time to live: getHistoricalData alone, with a clock
\* that also makes one long step, so that a cached series gets 5 minutes old.

\* history responses, with one whose only entry has no field1
TtlFeeds(t) == HistoryPayloads(t) \cup {Feeds(<<Entry(NullField, t)>>)}

HistoryDelivered(c) ==
    /\ Pending(c)
    /\ method[c] = "history"
    /\ \E data \in TtlFeeds(now) : Deliver(c, data)

\* 4 min 50 s pass at once, while no JSONP timer is armed
Wait ==
    /\ now - Epoch < historyCacheTimeout - jsonpTimeout
    /\ \A c \in Calls : pc[c] # "jsonp"
    /\ now' = now + (historyCacheTimeout - jsonpTimeout)
    /\ UNCHANGED <<cache, callVars, ret, nextId, nStarts, latestCalls, appVars>>

NextHistory ==
    \/ \E c \in Calls : FetchHistoricalData(c)
    \/ \E c \in Calls : HistoryDelivered(c)
    \/ \E c \in Calls : AttemptFails(c)
    \/ \E c \in Calls : JsonpTimeout(c)
    \/ clearCache
    \/ Tick
    \/ Wait

HistSpec == Init /\ [][NextHistory]_vars

----------------------------------------------------------------------------
\* getHistoricalData on feeds of every length up to MaxFeed.

\* a feed of n entries, newest first and 10 minutes apart; entry i reads i.4 %
\* unless i is in `invalid`, where field1 is null (odd i) or not a number (even i)
FeedOf(n, invalid, t) ==
    Feeds([i \in 1..n |->
             Entry(IF i \in invalid
                   THEN (IF i % 2 = 0 THEN TextField ELSE NullField)
                   ELSE NumField(10 * i + 4),
                   t - (i - 1) * 600000)])

BulkFeeds(t) ==
    {NoData}
      \cup {FeedOf(n, {}, t) : n \in 0..MaxFeed}
      \cup UNION {{FeedOf(n, invalid, t) : invalid \in (SUBSET (1..n)) \ {{}}} : n \in 1..MixLen}

FeedDelivered(c) ==
    /\ Pending(c)
    /\ method[c] = "history"
    /\ \E data \in BulkFeeds(now) : Deliver(c, data)

NextSample ==
    \/ \E c \in Calls : FetchHistoricalData(c)
    \/ \E c \in Calls : FeedDelivered(c)
    \/ \E c \in Calls : AttemptFails(c)

SampleSpec == Init /\ [][NextSample]_vars

----------------------------------------------------------------------------
\* determinePumpStatus on its own: every window of up to MaxWindow levels and
\* every current level, the levels taken around the 60 % threshold.

PumpLevels == 59..62
Windows == UNION {[1..n -> PumpLevels] : n \in 0..MaxWindow}

\* a reading of level c has been returned and the window is any w
InitPump ==
    /\ now = Epoch
    /\ cache = [data |-> NoReading, timestamp |-> 0,
                historicalData |-> NoSeries, historyTimestamp |-> 0]
    /\ pc = [c \in Calls |-> "idle"]
    /\ method = [c \in Calls |-> "none"]
    /\ started = [c \in Calls |-> 0]
    /\ attemptAt = [c \in Calls |-> 0]
    /\ tried = [c \in Calls |-> <<>>]
    /\ \E c \in PumpLevels :
          LET entry == Entry(NumField(10 * c), Epoch)
          IN  ret = [method |-> "latest", hit |-> FALSE, via |-> "jsonp",
                     tried |-> <<"jsonp">>, payload |-> Feeds(<<entry>>),
                     reading |-> processThingSpeakData(entry, 1, Epoch),
                     series |-> NoSeries, ok |-> TRUE, cached |-> NoReading]
    /\ nextId = 2
    /\ nStarts = 1
    /\ latestCalls = <<>>
    /\ waterLevelHistory \in Windows
    /\ pumpStatus = "OFF"
    /\ connectionStatus = "disconnected"
    /\ ingestLog = <<>>
    /\ todayData = <<MockToday>>
    /\ lastWaterLevel = <<>>
    /\ pastData = MockBlock(Epoch, 1)
    /\ store = <<[past |-> pastData, today |-> todayData]>>
    /\ storageOk = TRUE
    /\ raised = FALSE
    /\ usageRet = NoUsageReturn
    /\ boots = 1

\* determinePumpStatus(data.waterLevel, newHistory) and setPumpStatus, followed by
\* the connection status of the same handler
InferPump ==
    /\ connectionStatus = "disconnected"
    /\ pumpStatus' = determinePumpStatus(ret.reading.waterLevel, waterLevelHistory)
    /\ connectionStatus' = ConnectionStatus(ret.reading, now)
    /\ UNCHANGED <<now, cache, callVars, ret, nextId, nStarts, latestCalls,
                   waterLevelHistory, ingestLog, todayData, lastWaterLevel, pastData,
                   store, storageOk, raised, usageRet, boots>>

NextPump == InferPump

PumpSpec == InitPump /\ [][NextPump]_vars

----------------------------------------------------------------------------
\* Polling: the interval callback fires every 30 s, each request is answered
\* before the next one, and the provider reports one of a few readings.  The day
\* starts with or without a record of today in usageData.

\* level and field4 of the readings the provider reports
PollReadings == {<<53, NullField>>, <<50, NullField>>, <<50, NumField(10000)>>}
PollPayloads(t) == {Feeds(<<EntryCap(NumField(10 * r[1]), r[2], t)>>) : r \in PollReadings}

InitPoll ==
    /\ now = Epoch
    /\ cache = [data |-> NoReading, timestamp |-> 0,
                historicalData |-> NoSeries, historyTimestamp |-> 0]
    /\ pc = [c \in Calls |-> "idle"]
    /\ method = [c \in Calls |-> "none"]
    /\ started = [c \in Calls |-> 0]
    /\ attemptAt = [c \in Calls |-> 0]
    /\ tried = [c \in Calls |-> <<>>]
    /\ ret = [method |-> "none", hit |-> FALSE, via |-> "none", tried |-> <<>>,
              payload |-> NoData, reading |-> NoReading, series |-> NoSeries, ok |-> FALSE,
              cached |-> NoReading]
    /\ nextId = 1
    /\ nStarts = 0
    /\ latestCalls = <<>>
    /\ waterLevelHistory = <<>>
    /\ pumpStatus = "OFF"
    /\ connectionStatus = "disconnected"
    /\ ingestLog = <<>>
    /\ todayData \in {<<>>, <<MockToday>>}
    /\ lastWaterLevel = <<>>
    /\ pastData = MockBlock(Epoch, 1)
    /\ store = <<[past |-> pastData, today |-> todayData]>>
    /\ storageOk = TRUE
    /\ raised = FALSE
    /\ usageRet = NoUsageReturn
    /\ boots = 1

Idle == \A c \in Calls : pc[c] = "idle"

\* the setInterval callback: fetchCurrentData
PollTick(c) ==
    /\ nStarts < MaxPolls
    /\ Idle
    /\ IF latestCalls = <<>> THEN TRUE ELSE latestCalls[Len(latestCalls)].at < now
    /\ GetCurrentWaterLevel(c)

PollDelivered(c) ==
    /\ Pending(c)
    /\ method[c] = "latest"
    /\ \E data \in PollPayloads(now) : Deliver(c, data)

\* REFRESH_INTERVAL passes
Interval ==
    /\ nStarts < MaxPolls
    /\ Idle
    /\ latestCalls # <<>> /\ latestCalls[Len(latestCalls)].at = now
    /\ now' = now + refreshInterval
    /\ UNCHANGED <<cache, callVars, ret, nextId, nStarts, latestCalls, appVars>>

NextPoll ==
    \/ \E c \in Calls : PollTick(c)
    \/ \E c \in Calls : PollDelivered(c)
    \/ Interval

PollSpec == InitPoll /\ [][NextPoll]_vars

----------------------------------------------------------------------------
\* The usage service over page loads: readings are ingested one poll at a time,
\* the page is reloaded (which constructs the service again from localStorage),
\* clearData and getHistoricalUsage are called, and localStorage writes fail for
\* a while (quota exceeded, private browsing).

\* usageData.slice(-days): -0 is 0, and slice(0) is the whole array
SliceLast(data, days) == IF days = 0 THEN data ELSE LastN(data, days)

\* new WaterUsageService() on a page load at the current time, with draw s of the
\* random values: loadStoredData, then generateMockData pushes the records of the
\* 366 days up to today after the loaded ones and keeps the last `keep` of them
\* all, then saveData.  The slice drops from the front: the loaded records first
\* (the record of today is the last of them), then the oldest generated ones.
ConstructKeeping(s, keep) ==
    LET today == dayOf(now)
        nLoaded == IF store = <<>> THEN 0
                   ELSE (store[1].past.last - store[1].past.first + 1) + Len(store[1].today)
        nGenerated == keptDays + 1
        dropped == MathMax(0, nLoaded + nGenerated - keep)
        loadedKept == nLoaded - MathMin(dropped, nLoaded)
        firstDay == (today - keptDays) + MathMax(0, dropped - nLoaded)
        past == [first |-> firstDay, last |-> today - 1, seed |-> s]
        found == (IF loadedKept >= 1 THEN store[1].today ELSE <<>>)
                    \o <<MockRecord(today, s)>>
    IN  /\ pastData' = past
        /\ todayData' = found
        /\ store' = IF storageOk THEN <<[past |-> past, today |-> found]>> ELSE store

\* a constructor whose slice keeps one record more than it generates
ConstructKeepsLoaded(s) == ConstructKeeping(s, keptDays + 2)
Construct(s) == ConstructKeeping(s, keptDays)

Restart ==
    /\ boots < MaxBoots
    /\ boots' = boots + 1
    /\ \E s \in MockSeeds : Construct(s)
    /\ cache' = [data |-> NoReading, timestamp |-> 0,
                 historicalData |-> NoSeries, historyTimestamp |-> 0]
    /\ pc' = [c \in Calls |-> "idle"]
    /\ method' = [c \in Calls |-> "none"]
    /\ started' = [c \in Calls |-> 0]
    /\ attemptAt' = [c \in Calls |-> 0]
    /\ tried' = [c \in Calls |-> <<>>]
    /\ ret' = [method |-> "none", hit |-> FALSE, via |-> "none", tried |-> <<>>,
               payload |-> NoData, reading |-> NoReading, series |-> NoSeries, ok |-> FALSE,
               cached |-> NoReading]
    /\ latestCalls' = <<>>
    /\ waterLevelHistory' = <<>>
    /\ pumpStatus' = "OFF"
    /\ connectionStatus' = "disconnected"
    /\ raised' = FALSE
    /\ usageRet' = NoUsageReturn
    /\ UNCHANGED <<now, nextId, nStarts, ingestLog, lastWaterLevel, storageOk>>

\* clearData: usageData = [] and removeItem of the usage key only
clearData ==
    /\ pastData' = NoPast
    /\ todayData' = <<>>
    /\ store' = <<>>
    /\ UNCHANGED <<now, cache, callVars, ret, nextId, nStarts, latestCalls,
                   waterLevelHistory, pumpStatus, connectionStatus, ingestLog,
                   lastWaterLevel, storageOk, raised, usageRet, boots>>

getHistoricalUsage(days) ==
    /\ usageRet' = [op |-> "historical", days |-> days,
                    records |-> SliceLast(usageData(pastData, todayData, now), days),
                    summary |-> <<>>]
    /\ UNCHANGED <<now, cache, callVars, ret, nextId, nStarts, latestCalls,
                   waterLevelHistory, pumpStatus, connectionStatus, ingestLog, todayData,
                   lastWaterLevel, pastData, store, storageOk, raised, boots>>

\* a call of getUsageSummary
CallUsageSummary ==
    /\ usageRet' = [op |-> "summary", days |-> 0, records |-> <<>>,
                    summary |-> <<getUsageSummary(pastData, todayData, now)>>]
    /\ UNCHANGED <<now, cache, callVars, ret, nextId, nStarts, latestCalls,
                   waterLevelHistory, pumpStatus, connectionStatus, ingestLog, todayData,
                   lastWaterLevel, pastData, store, storageOk, raised, boots>>

StorageFails ==
    /\ storageOk
    /\ storageOk' = FALSE
    /\ UNCHANGED <<now, cache, callVars, ret, nextId, nStarts, latestCalls,
                   waterLevelHistory, pumpStatus, connectionStatus, ingestLog, todayData,
                   lastWaterLevel, pastData, store, raised, usageRet, boots>>

StorageRecovers ==
    /\ ~storageOk
    /\ storageOk' = TRUE
    /\ UNCHANGED <<now, cache, callVars, ret, nextId, nStarts, latestCalls,
                   waterLevelHistory, pumpStatus, connectionStatus, ingestLog, todayData,
                   lastWaterLevel, pastData, store, raised, usageRet, boots>>

\* levels the provider reports to the usage service
UsageLevels == {53, 70}
UsagePayloads(t) == {Feeds(<<Entry(NumField(10 * l), t)>>) : l \in UsageLevels}

\* the setInterval callback, which is gone once an updater has thrown
UsageTick(c) ==
    /\ nStarts < MaxIngests
    /\ Idle
    /\ ~raised
    /\ GetCurrentWaterLevel(c)

UsageDelivered(c) ==
    /\ Pending(c)
    /\ method[c] = "latest"
    /\ \E data \in UsagePayloads(now) : Deliver(c, data)

NextUsage ==
    \/ \E c \in Calls : UsageTick(c)
    \/ \E c \in Calls : UsageDelivered(c)
    \/ Interval
    \/ Restart
    \/ clearData
    \/ \E days \in 0..MaxDays : getHistoricalUsage(days)
    \/ CallUsageSummary
    \/ StorageFails
    \/ StorageRecovers

UsageSpec == Init /\ [][NextUsage]_vars

----------------------------------------------------------------------------
\* Stale readings: the provider's newest entry was created some time before the
\* request, up to and beyond the 10 minutes after which the App reports
\* "disconnected"; requests can also fail on every transport.

\* age of the newest entry, in ms
StaleAges == {0, 600000, 600001}
StalePayloads(t) == {Feeds(<<Entry(NumField(496), t - a)>>) : a \in StaleAges}

StaleDelivered(c) ==
    /\ Pending(c)
    /\ method[c] = "latest"
    /\ \E data \in StalePayloads(now) : Deliver(c, data)

NextStatus ==
    \/ \E c \in Calls : FetchCurrentData(c)
    \/ \E c \in Calls : StaleDelivered(c)
    \/ \E c \in Calls : AttemptFails(c)

StatusSpec == Init /\ [][NextStatus]_vars

----------------------------------------------------------------------------
\* A steady tank: under polling the provider reports levels that stay within one
\* percentage point of each other.

StableLevels == {49, 50}
StablePayloads(t) == {Feeds(<<Entry(NumField(10 * l), t)>>) : l \in StableLevels}

StableDelivered(c) ==
    /\ Pending(c)
    /\ method[c] = "latest"
    /\ \E data \in StablePayloads(now) : Deliver(c, data)

NextStable ==
    \/ \E c \in Calls : PollTick(c)
    \/ \E c \in Calls : StableDelivered(c)
    \/ Interval

StableSpec == Init /\ [][NextStable]_vars

----------------------------------------------------------------------------
\* Properties of the telemetry client.

LatestReturned == ret.method = "latest"
IsSentinel(r) ==
    /\ r.waterLevel = 0
    /\ r.tankCapacity = 10000
    /\ r.pumpStatus = "OFF"
    /\ r.lastUpdate = "Connection Error"
WellFormed(r) ==
    /\ r.waterLevel \in 0..100
    /\ r.tankCapacity > 0
    /\ r.pumpStatus \in {"ON", "OFF"}
\* zero entries, or a newest entry whose field1 is missing or non-numeric
Malformed(data) ==
    \/ ~data.hasFeeds
    \/ Len(data.feeds) = 0
    \/ data.feeds[1].field1.kind # "num"
TransportOrder == <<"jsonp", "fetch", "proxy">>
IsPrefix(s, t) == Len(s) <= Len(t) /\ \A i \in 1..Len(s) : s[i] = t[i]

\* C1: at no time are two network requests for the latest reading outstanding
\* at once (a caller that finds one in flight reuses it).
C1_SingleFlight ==
    Cardinality({c \in Calls : method[c] = "latest" /\ Pending(c)}) <= 1

\* C2: no Reading object is passed to addUsagePoint (and appended to the trend
\* window) more than once.
C2_IngestedOnce ==
    \A i, j \in 1..Len(ingestLog) : ingestLog[i].id = ingestLog[j].id => i = j

\* C3: the cached fetchedAt never decreases, except when the cache is cleared.
C3_FetchedAtMonotone ==
    [][cache'.data # NoReading => cache'.timestamp >= cache.timestamp]_vars

\* C4: of two fetchLatest calls made within 30 s of each other with no
\* invalidateCache between them, at most one goes to the network.
C4_OneRequestPer30s ==
    \A i, j \in 1..Len(latestCalls) :
        (i < j /\ latestCalls[j].at - latestCalls[i].at < 30000)
            => ~(latestCalls[i].net /\ latestCalls[j].net)

\* C5: a fetchLatest call made while a reading is cached and younger than 30 s
\* returns that reading, attempts no transport and leaves the cache unchanged; any
\* other fetchLatest call attempts the network, starting no more than one request.
C5_CacheHitRule ==
    [][Len(latestCalls') = Len(latestCalls) + 1 =>
          IF cache.data # NoReading /\ now - cache.timestamp < 30000
          THEN /\ ret'.method = "latest" /\ ret'.hit
               /\ ret'.reading = cache.data
               /\ ret'.tried = <<>>
               /\ cache' = cache
               /\ pc' = pc /\ tried' = tried
          ELSE /\ ret' = ret
               /\ cache' = cache
               /\ \E c \in Calls :
                     /\ pc[c] = "idle" /\ pc'[c] = "jsonp" /\ method'[c] = "latest"
                     /\ \A d \in Calls \ {c} : pc'[d] = pc[d]]_vars

\* C5 witness: a call was answered from a cache entry 20 s old.
C5_Witness ==
    /\ LatestReturned /\ ret.hit
    /\ ret.reading = cache.data
    /\ now - cache.timestamp = 20000

\* C6: when the transports fail or deliver a malformed payload, fetchLatest
\* returns a well-formed Reading that is the cached reading or the sentinel.
C6_DegradesToCachedOrSentinel ==
    (LatestReturned /\ ~ret.hit /\ (ret.via = "none" \/ Malformed(ret.payload)))
        => /\ WellFormed(ret.reading)
           /\ IsSentinel(ret.reading) \/ (ret.cached # NoReading /\ ret.reading = ret.cached)

\* C7: a payload with zero entries, or whose newest entry has a missing or
\* non-numeric field1, yields the sentinel and is not cached.
C7_MalformedYieldsSentinel ==
    (LatestReturned /\ ~ret.hit /\ ret.via # "none" /\ Malformed(ret.payload))
        => /\ IsSentinel(ret.reading)
           /\ cache.data.id # ret.reading.id

\* C8: every Reading returned by fetchLatest or held in the cache has its level
\* in [0,100]: a numeric provider level is rounded and clamped.
C8_LevelClamped ==
    /\ LatestReturned => ret.reading.waterLevel \in 0..100
    /\ cache.data # NoReading => cache.data.waterLevel \in 0..100
    /\ (LatestReturned /\ ~ret.hit /\ ret.via # "none" /\ ~Malformed(ret.payload))
         => LET t == ret.payload.feeds[1].field1.v
                rounded == (t + 5) \div 10
            IN  ret.reading.waterLevel =
                  IF rounded < 0 THEN 0 ELSE IF rounded > 100 THEN 100 ELSE rounded

\* C9: within one call the transports are tried in the order jsonp, fetch, proxy,
\* each at most once; the transport that delivers is the last one tried, and
\* the call is given up only after all three were tried.
C9_TransportOrder ==
    /\ \A c \in Calls :
          Pending(c) => /\ tried[c] # <<>>
                        /\ IsPrefix(tried[c], TransportOrder)
                        /\ pc[c] = tried[c][Len(tried[c])]
    /\ IsPrefix(ret.tried, TransportOrder)
    /\ ret.via # "none" => (ret.tried # <<>> /\ ret.via = ret.tried[Len(ret.tried)])
    /\ (ret.method # "none" /\ ~ret.hit /\ ret.via = "none") => ret.tried = TransportOrder

\* C9 witness: the relay proxy delivered after the two earlier transports failed.
C9_Witness == ret.via = "proxy" /\ ret.tried = TransportOrder /\ LatestReturned

\* C10: every transport attempt is over within its 10 s timeout, so that a call
\* returns even when the provider never answers.
C10_AttemptBounded ==
    \A c \in Calls : Pending(c) => now - attemptAt[c] <= 10000

----------------------------------------------------------------------------
\* Cache invalidation.

\* C11: clearCache empties both cache entries and getSystemStatus then reports the
\* cache as empty; the first fetchLatest made after a clearCache issues a network
\* request.
C11_ClearForcesRefetch ==
    [][/\ (latestCalls # <<>> /\ latestCalls' = <<>>) =>
             /\ cache'.data = NoReading /\ cache'.historicalData = <<>>
             /\ getSystemStatus'.cacheStatus = "empty"
       /\ (latestCalls = <<>> /\ Len(latestCalls') = 1) =>
             /\ ret' = ret
             /\ \E c \in Calls : pc[c] = "idle" /\ pc'[c] = "jsonp" /\ method'[c] = "latest"]_vars

----------------------------------------------------------------------------
\* The history cache.

HistoryCallStep == nStarts' = nStarts + 1

HistoryHit ==
    /\ ret'.method = "history" /\ ret'.hit
    /\ ret'.series = cache.historicalData
    /\ ret'.tried = <<>>
    /\ pc' = pc /\ tried' = tried
    /\ cache' = cache

HistoryMiss ==
    /\ ret' = ret
    /\ cache' = cache
    /\ \E c \in Calls : pc[c] = "idle" /\ pc'[c] = "jsonp" /\ method'[c] = "history"

----------------------------------------------------------------------------
\* The historical series.

\* the last return is a getHistoricalData that processed a provider feed
FromFeed ==
    /\ ret.method = "history" /\ ~ret.hit
    /\ ret.payload.hasFeeds /\ Len(ret.payload.feeds) > 0

\* C13: with N the length of the series given to sampleData, the output is a
\* subsequence of it in the same order, it contains the first and the last
\* element, and for N > 24 the indices kept are the multiples of floor(N / 24)
\* below N together with N - 1.
C13_Downsampling ==
    FromFeed =>
       LET in == HistoricalFromFeeds(ret.payload.feeds)
           out == ret.series
           N == Len(in)
           pos(j) == CHOOSE k \in 1..N : in[k] = out[j]
       IN  /\ \A j \in 1..Len(out) : \E k \in 1..N : in[k] = out[j]
           /\ \A j, k \in 1..Len(out) : j < k => pos(j) < pos(k)
           /\ N > 0 => out[1] = in[1] /\ out[Len(out)] = in[N]
           /\ N > 24 =>
                 {pos(j) - 1 : j \in 1..Len(out)}
                    = {i \in 0..(N - 1) : i % (N \div 24) = 0} \cup {N - 1}

\* C13 witness: a feed of 48 entries was sampled to 25 points, the last of them
\* the newest entry.
C13_Witness ==
    /\ FromFeed
    /\ Len(ret.payload.feeds) = 48
    /\ Len(ret.series) = 25
    /\ ret.series[25].level = 1

\* C14: a series fetchHistory returns from provider data has at most 24 points.
C14_AtMostBudget == FromFeed => Len(ret.series) <= 24

\* C15: an entry whose field1 is missing or not a number is dropped and every
\* other entry is kept; of a feed ordered newest first the series returned is in
\* ascending time order.
C15_ValidatedAscending ==
    FromFeed =>
       LET feeds == ret.payload.feeds
           out == ret.series
           Numeric(e) == e.field1.kind = "num"
           K == Cardinality({i \in 1..Len(feeds) : Numeric(feeds[i])})
           Matches(x, e) ==
              /\ Numeric(e)
              /\ x.time = formatTimeForChart(e.created_at)
              /\ x.level = (e.field1.v + 5) \div 10
           src(j) == CHOOSE i \in 1..Len(feeds) : Matches(out[j], feeds[i])
       IN  /\ \A j \in 1..Len(out) : \E i \in 1..Len(feeds) : Matches(out[j], feeds[i])
           /\ K <= 24 =>
                 /\ Len(out) = K
                 /\ \A i \in 1..Len(feeds) :
                       Numeric(feeds[i]) => \E j \in 1..Len(out) : Matches(out[j], feeds[i])
           /\ (\A a, b \in 1..Len(feeds) : a < b => feeds[a].created_at > feeds[b].created_at)
                 => \A j, k \in 1..Len(out) :
                       j < k => feeds[src(j)].created_at < feeds[src(k)].created_at

\* C15 witness: of a feed of three entries whose second is not a number, the
\* series returned holds the oldest and then the newest.
C15_Witness ==
    /\ FromFeed
    /\ Len(ret.payload.feeds) = 3
    /\ ret.payload.feeds[2].field1.kind = "text"
    /\ Len(ret.series) = 2
    /\ ret.series[1].level = 3 /\ ret.series[2].level = 1

----------------------------------------------------------------------------
\* The pump-state rule.

----------------------------------------------------------------------------
\* The trend window and the usage aggregator under polling.

IngestStep == Len(ingestLog') = Len(ingestLog) + 1

\* C17: the window holds at most 10 samples and equals the last min(10, k) levels
\* of the k readings ingested so far, in arrival order.
C17_TrendWindow ==
    LET k == Len(ingestLog)
        n == Len(waterLevelHistory)
    IN  /\ n <= 10
        /\ n = (IF k < 10 THEN k ELSE 10)
        /\ \A i \in 1..n : waterLevelHistory[i] = ingestLog[k - n + i].level

\* C17 witness: after 11 readings the window starts with the second one, which
\* differs from the first.
C17_Witness ==
    /\ Len(ingestLog) = 11
    /\ ingestLog[1].level # ingestLog[2].level
    /\ waterLevelHistory[1] = ingestLog[2].level

\* the record of today before an ingestion (the new record when there is none)
PrevRecord == IF todayData = <<>> THEN NewRecord ELSE todayData[1]

\* C18: with delta = last observed level - reading level (0 when no level was
\* observed before), an ingestion with delta > 0.5 adds min(delta / 100 *
\* tankCapacity, 50) litres to the bucket of the current hour, changes no other
\* bucket and makes dailyUsage the sum of the 24 buckets; with delta <= 0.5 no
\* bucket and no dailyUsage changes.  No ingestion raises dailyUsage by more than
\* 50 litres.
C18_UsageStep ==
    [][IngestStep =>
          LET reading == ret'.reading
              delta == IF lastWaterLevel = <<>> THEN 0
                       ELSE lastWaterLevel[1] - reading.waterLevel
              volume == delta * reading.tankCapacity
              old == PrevRecord
              new == todayData'[1]
              hour == (now \div 3600000) % 24
          IN  /\ IF delta >= 1
                 THEN /\ new.hourlyUsage[hour]
                           = old.hourlyUsage[hour] + (IF volume < 5000 THEN volume ELSE 5000)
                      /\ \A h \in 0..23 : h # hour => new.hourlyUsage[h] = old.hourlyUsage[h]
                      /\ new.dailyUsage = SumSeq([i \in 1..24 |-> new.hourlyUsage[i - 1]])
                 ELSE /\ new.hourlyUsage = old.hourlyUsage
                      /\ new.dailyUsage = old.dailyUsage
              /\ new.dailyUsage - old.dailyUsage <= 5000]_vars

\* C19: while the inferred pump state is ON, an ingestion adds the intake and the
\* pump run time of the time elapsed since the previous ingestion: 2 litres per
\* minute and one minute of run time per minute elapsed.
C19_IntakeProportional ==
    [][(IngestStep /\ pumpStatus' = "ON" /\ Len(latestCalls) >= 2) =>
          LET elapsed == latestCalls[Len(latestCalls)].at
                            - latestCalls[Len(latestCalls) - 1].at
              old == PrevRecord
              new == todayData'[1]
          IN  /\ (new.dailyIntake - old.dailyIntake) * 60000 = 200 * elapsed
              /\ (new.pumpRunTime - old.pumpRunTime) * 60000 = 100 * elapsed]_vars

\* no record of usageData and no efficiency getUsageSummary reports is above 95
EfficienciesCapped(past, found, t) ==
    LET data == usageData(past, found, t)
        summary == getUsageSummary(past, found, t)
    IN  /\ \A i \in 1..Len(data) : data[i].efficiency <= 95
        /\ summary.daily.efficiency <= 95
        /\ summary.monthly.efficiency <= 95
        /\ summary.yearly.efficiency <= 95

\* C20: initially and after every step, no record has an efficiency above 95 and
\* getUsageSummary reports no daily, monthly or yearly efficiency above 95; an
\* ingestion sets the efficiency of today's record to min(95, round(intake / usage
\* * 100)) when the day's usage is above 0 and leaves it unchanged when it is 0.
C20_EfficiencyCap ==
    [][/\ nStarts = 0 => EfficienciesCapped(pastData, todayData, now)
       /\ EfficienciesCapped(pastData', todayData', now')
       /\ IngestStep =>
             LET old == PrevRecord
                 new == todayData'[1]
                 rounded == (200 * new.dailyIntake + new.dailyUsage) \div (2 * new.dailyUsage)
             IN  IF new.dailyUsage > 0
                 THEN new.efficiency = (IF rounded < 95 THEN rounded ELSE 95)
                 ELSE new.efficiency = old.efficiency]_vars

\* C20 witness: today's intake exceeds today's usage and the record, ingested into,
\* stands at 95 %, as does the daily efficiency reported.
C20_Witness ==
    /\ ingestLog # <<>>
    /\ todayData # <<>>
    /\ todayData[1].dailyUsage > 0
    /\ todayData[1].dailyIntake > todayData[1].dailyUsage
    /\ todayData[1].efficiency = 95
    /\ getUsageSummary(pastData, todayData, now).daily.efficiency = 95

----------------------------------------------------------------------------
\* The usage service over page loads, resets and storage failures.

\* the level of the latest ingestion that returned: <<>> or <<v>>
RECURSIVE LastReturned(_)
LastReturned(log) ==
    IF log = <<>> THEN <<>>
    ELSE IF log[Len(log)].returned THEN <<log[Len(log)].level>>
    ELSE LastReturned(SubSeq(log, 1, Len(log) - 1))

\* C21: an ingestion that returns leaves the persisted level equal to the level of
\* its reading, whether or not it recorded usage or intake; the level it found
\* persisted is the level of the latest ingestion that returned before it, and
\* the usage it adds to the bucket of the hour is computed from the drop from
\* that level.
C21_LastLevelPersisted ==
    [][(IngestStep /\ ingestLog'[Len(ingestLog')].returned) =>
          LET reading == ret'.reading
              before == LastReturned(ingestLog)
              delta == IF before = <<>> THEN 0 ELSE before[1] - reading.waterLevel
              volume == delta * reading.tankCapacity
              old == PrevRecord
              new == todayData'[1]
              hour == (now \div 3600000) % 24
          IN  /\ reading.waterLevel = ingestLog'[Len(ingestLog')].level
              /\ lastWaterLevel' = <<reading.waterLevel>>
              /\ lastWaterLevel = before
              /\ new.hourlyUsage[hour] - old.hourlyUsage[hour]
                    = (IF delta >= 1 THEN (IF volume < 5000 THEN volume ELSE 5000) ELSE 0)]_vars

\* C21 witness: 53 % then 70 % were ingested; neither ingestion recorded usage or,
\* the pump being inferred OFF, intake, and the persisted level is 70.
C21_Witness ==
    /\ boots = 1
    /\ Len(ingestLog) = 2
    /\ ingestLog[1].level = 53 /\ ingestLog[2].level = 70
    /\ ingestLog[2].pump = "OFF" /\ ingestLog[2].returned
    /\ todayData # <<>>
    /\ todayData[1].hourlyUsage = MockHourly
    /\ todayData[1].dailyIntake = MockToday.dailyIntake
    /\ lastWaterLevel = <<70>>

\* C22: usageData and the saved copy hold the dates in strictly ascending order,
\* hence at most one record per date, after any page loads, ingestions and
\* resets; an ingestion leaves the records of the other dates alone and leaves
\* exactly one record of today, the one it found or, when there was none, a new one.
DatesAscending(past, found, t) ==
    LET data == usageData(past, found, t)
    IN  \A i \in 1..(Len(data) - 1) : data[i].date < data[i + 1].date
HoldsIngested ==
    /\ todayData # <<>>
    /\ \E h \in Hours : todayData[1].hourlyUsage[h] \notin {0, MockHourly[h]}

\* C23: once today's record holds ingested usage, a later ingestion only adds to
\* its buckets and its daily usage, and a later page load leaves the record as it
\* was; only clearData removes it.
C23_RecordsKept ==
    [][/\ (HoldsIngested /\ IngestStep) =>
             /\ Len(todayData') = 1
             /\ \A h \in Hours : todayData'[1].hourlyUsage[h] >= todayData[1].hourlyUsage[h]
             /\ todayData'[1].dailyUsage >= todayData[1].dailyUsage
       /\ (HoldsIngested /\ boots' = boots + 1) => todayData' = todayData]_vars

\* C24: clearData empties usageData and the saved copy and clears the persisted
\* level, and the first ingestion after it records no usage.
C24_ResetClearsLevel ==
    [][/\ (pastData' = NoPast /\ pastData # NoPast) =>
             /\ todayData' = <<>>
             /\ store' = <<>>
             /\ lastWaterLevel' = <<>>
       /\ (IngestStep /\ pastData = NoPast /\ todayData = <<>>) =>
             /\ todayData'[1].dailyUsage = 0
             /\ \A h \in Hours : todayData'[1].hourlyUsage[h] = 0]_vars

\* v is Math.round(a / b): the whole number nearest to a / b, for b > 0
Nearest(v, a, b) == 2 * v * b - 2 * a <= b /\ 2 * a - 2 * v * b <= b

\* the summary of one period against the records that contribute to it
PeriodAgrees(p, recs) ==
    LET n == Len(recs)
        usage == SumSeq([i \in 1..n |-> recs[i].dailyUsage])
        intake == SumSeq([i \in 1..n |-> recs[i].dailyIntake])
    IN  /\ Nearest(p.usage, usage, 100)
        /\ Nearest(p.intake, intake, 100)
        /\ Nearest(p.net, intake - usage, 100)
        /\ Nearest(p.averageDaily, usage, 100 * (IF n < 1 THEN 1 ELSE n))
        /\ n = 0 => p.usage = 0 /\ p.intake = 0 /\ p.net = 0 /\ p.efficiency = 0
                       /\ p.averageDaily = 0

\* C25: what getUsageSummary returns on an empty usageData is 0 in every field of
\* daily, monthly and yearly; in general the daily average of a period is its
\* usage sum divided by max(1, number of its records), rounded, and each net is
\* the intake sum minus the usage sum of the same period, rounded.
C25_SummaryArithmetic ==
    [][(usageRet'.op = "summary" /\ usageRet' # usageRet) =>
          LET summary == usageRet'.summary[1]
              data == usageData(pastData, todayData, now)
              today == dayOf(now)
              InYear(r) == yearOf(r.date) = yearOf(today)
              InMonth(r) == InYear(r) /\ monthOf(r.date) = monthOf(today)
          IN  /\ PeriodAgrees(summary.monthly, SelectSeq(data, InMonth))
              /\ PeriodAgrees(summary.yearly, SelectSeq(data, InYear))
              /\ IF todayData = <<>>
                 THEN summary.daily = [usage |-> 0, intake |-> 0, net |-> 0, efficiency |-> 0]
                 ELSE Nearest(summary.daily.net,
                              todayData[1].dailyIntake - todayData[1].dailyUsage, 100)
              /\ data = <<>> => summary.yearly.averageMonthly = 0]_vars

\* C25 witness: getUsageSummary was called on an empty usageData and returned 0
\* in every field.
C25_Witness ==
    /\ pastData = NoPast /\ todayData = <<>>
    /\ usageRet.op = "summary"
    /\ usageRet.summary[1].daily = [usage |-> 0, intake |-> 0, net |-> 0, efficiency |-> 0]
    /\ usageRet.summary[1].monthly
          = [usage |-> 0, intake |-> 0, net |-> 0, efficiency |-> 0, averageDaily |-> 0,
             averageMonthly |-> 0]
    /\ usageRet.summary[1].yearly = usageRet.summary[1].monthly

\* C26: getHistoricalUsage(days) returns the last min(days, n) of the n records of
\* usageData, in their order, and changes nothing else.
C26_LastDays ==
    [][(usageRet'.op = "historical" /\ usageRet' # usageRet) =>
          LET data == usageData(pastData, todayData, now)
              n == Len(data)
              days == usageRet'.days
              k == IF days < n THEN days ELSE n
              records == usageRet'.records
          IN  /\ Len(records) = k
              /\ \A i \in 1..k : records[i] = data[n - k + i]
              /\ UNCHANGED <<todayData, pastData, store, lastWaterLevel>>]_vars

\* C27: an ingestion made while localStorage writes fail does not raise and
\* leaves the update in today's record in memory; an ingestion whose writes
\* succeed leaves the saved copy equal to usageData and the persisted level equal
\* to the level of its reading.
C27_StorageFailureTolerated ==
    [][IngestStep =>
          LET reading == ret'.reading
          IN  /\ raised' = raised
              /\ todayData' = <<addUsagePoint(todayData, lastWaterLevel, reading.waterLevel,
                                              reading.tankCapacity,
                                              ingestLog'[Len(ingestLog')].pump, now)>>
              /\ storageOk => /\ store' = <<[past |-> pastData', today |-> todayData']>>
                               /\ lastWaterLevel' = <<reading.waterLevel>>]_vars

----------------------------------------------------------------------------
\* Connection status and ingestion of stale and failed readings.

\* C28: after a fetch the connection status is "error" when the reading is the
\* connection-error sentinel, "disconnected" when the reading's timestamp is more
\* than 10 minutes before now and "connected" otherwise; the reading, stale or
\* not, is appended to the trend window and ingested.
C28_StatusAfterFetch ==
    [][(ret' # ret /\ ret'.method = "latest") =>
          LET reading == ret'.reading
          IN  /\ connectionStatus'
                    = (IF IsSentinel(reading) /\ reading.lastUpdate = "Connection Error"
                       THEN "error"
                       ELSE IF now' - reading.timestamp > 10 * 60 * 1000 THEN "disconnected"
                       ELSE "connected")
              /\ waterLevelHistory' = LastN(Append(waterLevelHistory, reading.waterLevel), 10)
              /\ IngestStep
              /\ ingestLog'[Len(ingestLog')].level = reading.waterLevel
              /\ lastWaterLevel' = <<reading.waterLevel>>]_vars

\* C28 witness: a reading created 10 minutes and 1 ms before it was fetched is in
\* the window and was ingested, and the status is "disconnected"; before it, a
\* reading of exactly 10 minutes gave "connected".
C28_Witness ==
    /\ Len(ingestLog) = 2
    /\ ret.method = "latest" /\ ~ret.hit
    /\ now - ret.reading.timestamp = 600001
    /\ connectionStatus = "disconnected"
    /\ waterLevelHistory = <<50, 50>>
    /\ lastWaterLevel = <<50>>

\* C29: a fetch that ends in the connection-error sentinel changes neither the
\* usage records nor the persisted level nor the trend window nor the inferred
\* pump state.
C29_SentinelNotIngested ==
    [][(ret' # ret /\ ret'.method = "latest" /\ IsSentinel(ret'.reading)) =>
          UNCHANGED <<todayData, pastData, lastWaterLevel, waterLevelHistory, pumpStatus>>]_vars

\* C30: when all the levels ingested so far lie within 1 percentage point of one
\* level, no three consecutive samples, each taken with at least 3 samples in the
\* window, get the pump states X, Y, X with X # Y.
C30_NoOscillation ==
    (\E l \in 0..100 : \A i \in 1..Len(ingestLog) :
         ingestLog[i].level - l <= 1 /\ l - ingestLog[i].level <= 1)
    => \A k \in 5..Len(ingestLog) :
          ~(/\ ingestLog[k - 2].pump # ingestLog[k - 1].pump
            /\ ingestLog[k - 1].pump # ingestLog[k].pump)

====
